---- MODULE Spec2Model ----
(***************************************************************************)
(* SmartFlow OA console: the API adapter (src/src/lib/api.ts) and the auth *)
(* session store (AuthContext / AuthGuard / Permission) as a state         *)
(* machine.  One browser tab: local storage, the AuthProvider's in-memory  *)
(* token, the react-query cache entry ["me"], the router location, and the *)
(* adapter requests in flight.  An await on the network is a step          *)
(* boundary wherever state changed before it; everything between two such  *)
(* awaits runs in one step, the React re-render it causes included.        *)
(***************************************************************************)
EXTENDS Integers, Sequences, FiniteSets, Bags, TLC

\* ---------------------------------------------------------------- bounds
MaxReq == 2          \* adapter requests in flight at the same time
MaxExtra == 1        \* how far a body text may exceed the truncation length
MaxCodes == 3        \* longest permission-code array given to <Permission>
MaxEquip == 3        \* longest equipment string, in characters
MaxRooms == 2        \* longest room list the backend sends
MaxMeet == 2         \* longest meeting list the backend sends
MaxTrig == 2         \* user actions on one data load

\* ------------------------------------------------------ program constants
SliceLen == 200      \* text.slice(0, 200)
DefaultRetry == 3    \* retries of a query of a QueryClient built with no options

\* ---------------------------------------------------------------- values
None == "none"                       \* null / undefined / absent key

LoginData == {"L1", "L2"}            \* BackendLoginSuccessResponse payloads
TokenOf(d) == IF d = "L1" THEN "t1" ELSE "t2"      \* data.token
UserIdOf(d) == IF d = "L1" THEN "u1" ELSE "u2"     \* data.userId
Tokens == {TokenOf(d) : d \in LoginData}

BackendUsers == {"U1"}               \* BackendUser payloads of /api/me
PlainData == {"null", "", "d1"}      \* payloads of the other endpoints

Codes == {-1, 0, 1, 2}               \* envelope codes the backend may send
Msgs == {"", "denied"}               \* envelope msg values
DefaultMsg == "interface returned an error"   \* the fixed fallback text of requestResult

StatusSet == {200, 401, 403, 500}    \* HTTP statuses the backend may send
HttpOk(status) == status >= 200 /\ status <= 299        \* res.ok

Protected == {"/", "/users"}         \* routes wrapped in AuthGuard
LoginPath == "/login"
Paths == Protected \cup {LoginPath}

PageOps == {"apiApproveWorkflow"}    \* adapter functions called by pages
Ops == PageOps \cup {"apiLogin", "apiLogout", "apiGetCurrentUser"}

Roles == {"admin", "manager", "employee"}
NoUser == [id |-> None, role |-> None]
AnyUsers == {[id |-> "U1", role |-> r] : r \in Roles}
PermCodes == {"user:add", "workflow:approve"}

Rep(n) == [i \in 1..n |-> "x"]
BodyTexts == {Rep(n) : n \in {0, 2, SliceLen, SliceLen + MaxExtra}}

\* ---------------------------------------------------------------- errors
NoErr == [kind |-> "none", status |-> 0, body |-> << >>, msg |-> ""]
HttpErr(status, text) ==
  [kind |-> "http", status |-> status, body |-> text, msg |-> ""]
AppErr(m) == [kind |-> "app", status |-> 0, body |-> << >>, msg |-> m]
NetErr == [kind |-> "net", status |-> 0, body |-> << >>, msg |-> ""]
ParseErr == [kind |-> "parse", status |-> 0, body |-> << >>, msg |-> ""]

NoEnv == [code |-> 0, msg |-> "", data |-> "null"]
Resolved(d) == [ok |-> TRUE, data |-> d, err |-> NoErr]
Rejected(e) == [ok |-> FALSE, data |-> "null", err |-> e]

\* ------------------------------------------------- adapter: pure helpers
\* getAuthHeaders: the Authorization header built from local storage
\* (None: no header).
\* variant: no header is ever built
getAuthHeaders_Never(storage) == None
getAuthHeaders(storage) ==
  IF storage.token = None THEN None ELSE storage.token

\* variant: the text is not cut
Slice_Whole(text) == text
Slice(text) ==
  SubSeq(text, 1, IF Len(text) < SliceLen THEN Len(text) ELSE SliceLen)

\* requestJson after the body has been read.  body.kind is "text" or
\* "unreadable" for a non-OK response, "json" or "badjson" for an OK one.
requestJsonSettle(status, body) ==
  IF ~HttpOk(status)
    THEN Rejected(HttpErr(status,
                  IF body.kind = "text" THEN Slice(body.text) ELSE << >>))
    ELSE IF body.kind = "json" THEN Resolved("json") ELSE Rejected(ParseErr)

\* variant: only code 0 counts as success
requestResult_ZeroOnly(jr, env) ==
  IF ~jr.ok THEN jr
  ELSE IF env.code # 0
    THEN Rejected(AppErr(IF env.msg # "" THEN env.msg ELSE DefaultMsg))
    ELSE Resolved(env.data)

\* variant: the fixed text is used whatever the server said
requestResult_FixedText(jr, env) ==
  IF ~jr.ok THEN jr
  ELSE IF env.code # 0 /\ env.code # 1
    THEN Rejected(AppErr(DefaultMsg))
    ELSE Resolved(env.data)

requestResult(jr, env) ==
  IF ~jr.ok THEN jr
  ELSE IF env.code # 0 /\ env.code # 1
    THEN Rejected(AppErr(IF env.msg # "" THEN env.msg ELSE DefaultMsg))
    ELSE Resolved(env.data)

\* requestJson on the response status (api.ts 44-58): what it leaves in
\* local storage and in window.location.href.
IsAuthFailure(status) == status = 401 \/ status = 403
ClearedStorage == [token |-> None, userId |-> None]
\* variant: the userId key is left behind
StorageAfterStatus_KeepsUserId(status, storage) ==
  IF ~HttpOk(status) /\ IsAuthFailure(status)
    THEN [storage EXCEPT !.token = None] ELSE storage
\* variant: every failed response ends the session
StorageAfterStatus_AnyFailure(status, storage) ==
  IF ~HttpOk(status) THEN ClearedStorage ELSE storage
StorageAfterStatus(status, storage) ==
  IF ~HttpOk(status) /\ IsAuthFailure(status) THEN ClearedStorage ELSE storage
\* variant: every failed response sends the browser to /login
HrefAfterStatus_AnyFailure(status, pathname, oldHref) ==
  IF ~HttpOk(status) /\ pathname # LoginPath THEN LoginPath ELSE oldHref
HrefAfterStatus(status, pathname, oldHref) ==
  IF ~HttpOk(status) /\ IsAuthFailure(status) /\ pathname # LoginPath
    THEN LoginPath ELSE oldHref

mapBackendUser(d) == [id |-> d, role |-> "employee"]

\* ------------------------------------------- adapter: rooms and meetings
\* Text is a sequence of characters.  "DUN" stands for the ideographic
\* comma and "FWC" for the full-width comma; "a" and "b" are ordinary
\* characters, ";" is a delimiter of attendee lists only.
Space == " "
Chars == {"a", "b", Space, ",", "DUN", "FWC"}
\* variant: the full-width comma does not separate
EquipDelims_NoFullwidth == {",", "DUN"}
EquipDelims == {"DUN", ",", "FWC"}          \* /[DUN,FWC]/

\* String.prototype.split with a one-character pattern: every delimiter
\* ends a part, empty parts are kept
RECURSIVE SplitFrom(_, _, _, _)
SplitFrom(text, delims, k, cur) ==
  IF k > Len(text) THEN << cur >>
  ELSE IF text[k] \in delims
    THEN << cur >> \o SplitFrom(text, delims, k + 1, << >>)
    ELSE SplitFrom(text, delims, k + 1, Append(cur, text[k]))
split(text, delims) == SplitFrom(text, delims, 1, << >>)

RECURSIVE trimStart(_)
trimStart(t) ==
  IF t # << >> /\ Head(t) = Space THEN trimStart(Tail(t)) ELSE t
RECURSIVE trimEnd(_)
trimEnd(t) ==
  IF t # << >> /\ t[Len(t)] = Space
    THEN trimEnd(SubSeq(t, 1, Len(t) - 1)) ELSE t
trim(t) == trimEnd(trimStart(t))

Truthy(t) == t # << >>                       \* Boolean(string)
map_trim(parts) == [k \in 1..Len(parts) |-> trim(parts[k])]
filter_Boolean(parts) == SelectSeq(parts, Truthy)

\* an optional string field: absent (undefined / null) or a text
Absent == [has |-> FALSE, text |-> << >>]
Present(t) == [has |-> TRUE, text |-> t]

\* String(n) of a number
String(n) == ToString(n)

\* room: [id, name, equipment], equipment an optional string
mapBackendMeetingRoom(room) ==
  [id |-> String(room.id),
   name |-> room.name,
   equipment |-> IF room.equipment.has /\ Truthy(room.equipment.text)
                   THEN filter_Boolean(map_trim(split(room.equipment.text,
                                                     EquipDelims)))
                   ELSE << >>]

\* new Map(entries): a later entry replaces an earlier one with its key
RECURSIVE NewMap(_)
NewMap(entries) ==
  IF entries = << >> THEN << >>
  ELSE LET n == Len(entries)
           m == NewMap(SubSeq(entries, 1, n - 1))
           key == entries[n][1]
       IN [k \in DOMAIN m \cup {key} |->
             IF k = key THEN entries[n][2] ELSE m[k]]

MeetingStatus(st) ==
  IF st = "ongoing" \/ st = "completed" \/ st = "cancelled"
    THEN st ELSE "upcoming"

\* meeting: [id, roomId, status]; the fields that are copied unchanged
\* (title, dates, description) and the attendee list are left out
mapBackendMeeting(meeting, roomMap) ==
  LET roomId == String(meeting.roomId)
  IN [id |-> String(meeting.id),
      roomId |-> roomId,
      roomName |-> IF roomId \in DOMAIN roomMap
                     THEN roomMap[roomId].name ELSE "",
      status |-> MeetingStatus(meeting.status)]

\* apiGetMeetingRooms after its request: rooms.map(mapBackendMeetingRoom)
apiGetMeetingRooms(rooms) ==
  [k \in 1..Len(rooms) |-> mapBackendMeetingRoom(rooms[k])]

\* apiGetMeetings / apiGetTodayMeetings after Promise.all: the room map is
\* built from the mapped rooms and every meeting is mapped with it
\* variant: the meetings are mapped without the room map
MapMeetings_NoRooms(rooms, meetings) ==
  [k \in 1..Len(meetings) |-> mapBackendMeeting(meetings[k], << >>)]
MapMeetings(rooms, meetings) ==
  LET roomMap == NewMap([k \in 1..Len(rooms) |-> << rooms[k].id, rooms[k] >>])
  IN [k \in 1..Len(meetings) |-> mapBackendMeeting(meetings[k], roomMap)]

\* ------------------------------------------------ session store: helpers
\* AuthProvider.logout: try { await apiLogout() } catch { log } finally {...}
\* variant: no catch, the failure of apiLogout is passed on
LogoutOutcome_NoCatch(r) == IF r.ok THEN "resolved" ELSE "rejected"
LogoutOutcome(r) == IF r.ok THEN "resolved" ELSE "resolved"

\* variant: only the admin role is allowed
hasPermission_AdminOnly(user, permission) ==
  IF user = NoUser THEN FALSE
  ELSE IF user.role = "admin" THEN TRUE
  ELSE FALSE

hasPermission(user, permission) ==
  IF user = NoUser THEN FALSE
  ELSE IF user.role = "admin" THEN TRUE
  ELSE TRUE

\* <Permission value=...>: value is one code or an array of codes.
PermissionCodes(value) == IF value.isArray THEN value.many ELSE << value.one >>
Permission(user, value) ==
  LET codes == PermissionCodes(value)
      allowed == \E k \in 1..Len(codes) : hasPermission(user, codes[k])
  IN IF ~allowed THEN "fallback" ELSE "children"

\* AuthGuard (both variants): what it renders.
\* variant: the user check is missing
AuthGuard_NoUserCheck(user, loading) ==
  IF loading THEN "null" ELSE "children"

AuthGuard(user, loading) ==
  IF loading THEN "null"
  ELSE IF user = NoUser THEN "navigate"
  ELSE "children"

\* isLoading of the ["me"] query: fetching with no data yet.
IsLoading(q) == q.fetching /\ q.data = NoUser

\* ----------------------------------------------------------------- state
VARIABLES
  ls,         \* localStorage: [token, userId], None when the key is absent
  token,      \* AuthProvider's useState token
  me,         \* the ["me"] query: [data, fetching, invalidated]
  location,   \* pathname of the current document / router location
  from,       \* location.state.from.pathname (None when absent)
  href,       \* pending window.location.href assignment (None when none)
  view,       \* what the matched route renders
  reqs,       \* adapter requests in flight, by slot
  loginWait,  \* Login.onSuccess suspended in "await login(...)": redirectTo
  last,       \* the step just taken and what it delivered
  perm,       \* a <Permission> element: its inputs and what it rendered
  wire,       \* one response taken through requestJson / requestResult
  load,       \* one data load of a page: how it is driven and how far it is
  fan,        \* one apiGetMeetings / apiGetTodayMeetings call
  equip,      \* one room taken through mapBackendMeetingRoom
  page        \* the local state of one mounted page component

vars == << ls, token, me, location, from, href, view, reqs, loginWait,
           last, perm, wire, load, fan, equip, page >>

\* the session machine's variables, and the variables of the parts that are
\* exercised on their own
session == << ls, token, me, location, from, href, view, reqs, loginWait,
              last >>
parts == << perm, wire, load, fan, equip, page >>

\* A request in flight: the adapter function, the Authorization header it
\* was sent with, how far requestJson has got ("sent": awaiting fetch,
\* "text" / "json": awaiting the body), the status received, and whether
\* the ["me"] query still takes its result.
AllFree == EmptyBag
InFlight == BagToSet(reqs)
HasFree(rq) == BagCardinality(rq) < MaxReq

\* requestJson up to its first await: fetch() is called with the headers
\* built from local storage at that moment.
SentReq(op, storage) ==
  [op |-> op, hdr |-> getAuthHeaders(storage), phase |-> "sent",
   status |-> 0, live |-> (op = "apiGetCurrentUser")]
Put(rq, r) == rq (+) SetToBag({r})
Take(rq, r) == rq (-) SetToBag({r})

\* A running fetch of the ["me"] query whose result the cache no longer
\* takes (cancelled by a refetch, or its query removed by clear()).
Dead(r) == [r EXCEPT !.live = FALSE]
Alive(r) == [r EXCEPT !.live = (r.op = "apiGetCurrentUser")]
Orphan(rq) ==
  LET S == BagToSet(rq)
  IN [t \in {Dead(r) : r \in S} |->
        (IF t \in S THEN rq[t] ELSE 0)
        + (IF Alive(t) # t /\ Alive(t) \in S THEN rq[Alive(t)] ELSE 0)]

EmptyQuery == [data |-> NoUser, fetching |-> FALSE, invalidated |-> FALSE]

\* The routes of App.tsx after a render with the given session state: the
\* guard's <Navigate> and the Login page's redirect effect are followed.
Settle(loc, frm, q) ==
  IF loc \in Protected
    THEN IF AuthGuard(q.data, IsLoading(q)) = "navigate"
           THEN [location |-> LoginPath, from |-> loc]
           ELSE [location |-> loc, from |-> frm]
    ELSE IF loc = LoginPath /\ ~IsLoading(q) /\ q.data # NoUser
           THEN [location |-> "/", from |-> None]
           ELSE [location |-> loc, from |-> frm]

ViewOf(loc, q) ==
  IF loc \in Protected
    THEN (CASE AuthGuard(q.data, IsLoading(q)) = "null" -> "nothing"
            [] AuthGuard(q.data, IsLoading(q)) = "children" -> "content"
            [] OTHER -> "redirecting")
    ELSE IF loc = LoginPath THEN "login" ELSE "notfound"

NoLast ==
  [ev |-> "init", op |-> None, status |-> 0, hdr |-> None, ok |-> TRUE,
   toast |-> NoErr, logout |-> None, login |-> None]

NoPerm == [user |-> NoUser,
           value |-> [isArray |-> FALSE, one |-> "user:add", many |-> << >>],
           out |-> None]

\* storage: local storage when the response arrives; stored: local storage
\* when an apiLogin call that received this response has settled
NoWire == [status |-> 200,
           body |-> [kind |-> "json", text |-> << >>, env |-> NoEnv],
           done |-> FALSE, out |-> Resolved("null"),
           storage |-> [token |-> None, userId |-> None],
           stored |-> [token |-> None, userId |-> None]]

\* A data load of a page, by what drives it:
\*   "query"     useQuery with the client's default options
\*   "me"        the AuthProvider's useQuery, retry: false
\*   "mutation"  useMutation
\*   "effect"    Dashboard.loadData, called from an effect and from refresh
LoadKinds == {"query", "me", "mutation", "effect"}
Retry(kind) == IF kind = "query" THEN DefaultRetry ELSE 0
NoLoad == [kind |-> "query", state |-> "idle", failureCount |-> 0,
           attempts |-> 0, trig |-> 0, err |-> NoErr]

\* One of the two requests of a fan-out: not yet sent, sent, or settled
\* with what the backend sent (raw), what the adapter made of it (val) or
\* the error.
IdleSlot == [state |-> "idle", raw |-> << >>, val |-> << >>, err |-> NoErr]
SentSlot == [IdleSlot EXCEPT !.state = "sent"]
OkSlot(raw, val) == [state |-> "ok", raw |-> raw, val |-> val, err |-> NoErr]
FailedSlot(e) == [IdleSlot EXCEPT !.state = "failed", !.err = e]

NoOut == [state |-> "none", data |-> << >>, err |-> NoErr]
NoFan == [op |-> None, rooms |-> IdleSlot, meetings |-> IdleSlot,
          first |-> None, out |-> NoOut]

\* a room before it has been mapped
NoEquip ==
  [room |-> [id |-> 1, name |-> "A", equipment |-> Absent],
   done |-> FALSE, out |-> << >>]

\* no page component is mounted
NoPage == [unit |-> "none"]

\* AuthProvider mounting in a fresh document: useState(localStorage token),
\* the mount effect, and the ["me"] query starting when enabled.
\* variant: the stored token is not read
BootToken_Null(storage) == None
BootToken(storage) == storage.token
BootQuery(storage) ==
  [EmptyQuery EXCEPT !.fetching = (BootToken(storage) # None)]
BootReqs(storage) ==
  IF BootToken(storage) # None
    THEN Put(AllFree, SentReq("apiGetCurrentUser", storage))
    ELSE AllFree

StoredSessions ==
  {ClearedStorage} \cup
  {[token |-> TokenOf(d), userId |-> UserIdOf(d)] : d \in LoginData}

Init ==
  /\ ls \in StoredSessions
  /\ token = BootToken(ls)
  /\ me = BootQuery(ls)
  /\ reqs = BootReqs(ls)
  /\ \E p \in Paths :
       /\ location = Settle(p, None, me).location
       /\ from = Settle(p, None, me).from
  /\ href = None
  /\ view = ViewOf(location, me)
  /\ loginWait = None
  /\ last = NoLast
  /\ perm = NoPerm
  /\ wire = NoWire
  /\ load = NoLoad
  /\ fan = NoFan
  /\ equip = NoEquip
  /\ page = NoPage

\* ------------------------------------------------------------ page loads
Boot(p, frm) ==
  LET q == BootQuery(ls)
      s == Settle(p, frm, q)
  IN /\ token' = BootToken(ls)
     /\ me' = q
     /\ reqs' = BootReqs(ls)
     /\ location' = s.location
     /\ from' = s.from
     /\ view' = ViewOf(s.location, q)
     /\ href' = None
     /\ loginWait' = None
     /\ last' = [NoLast EXCEPT !.ev = "boot"]
     /\ UNCHANGED << ls, parts >>

\* the navigation started by window.location.href = "/login" commits
ForcedRedirect == href # None /\ Boot(href, None)
\* the user reloads the page (history state survives)
Reload == href = None /\ Boot(location, from)
\* the user opens a URL in the address bar
OpenUrl(p) == Boot(p, None)

\* a sidebar link: client-side navigation between protected pages
Navigate(p) ==
  LET s == Settle(p, None, me)
  IN /\ view = "content"
     /\ p # location
     /\ location' = s.location
     /\ from' = s.from
     /\ view' = ViewOf(s.location, me)
     /\ last' = [NoLast EXCEPT !.ev = "nav"]
     /\ UNCHANGED << ls, token, me, href, reqs, loginWait, parts >>

\* ------------------------------------------------------ issuing requests
Issue(op) ==
  /\ HasFree(reqs)
  /\ reqs' = Put(reqs, SentReq(op, ls))
  /\ last' = [NoLast EXCEPT !.ev = "issue", !.op = op,
                            !.hdr = getAuthHeaders(ls)]
  /\ UNCHANGED << ls, token, me, location, from, href, view, loginWait,
                  parts >>

\* a page component calls an adapter function
PageCall(op) == view = "content" /\ Issue(op)

\* Login.handleSubmit -> loginMutation.mutate -> apiLogin
LoginPending ==
  loginWait # None \/ \E i \in InFlight : i.op = "apiLogin"
LoginSubmit == view = "login" /\ ~LoginPending /\ Issue("apiLogin")

\* AuthProvider.logout up to the fetch inside apiLogout
LogoutCall == Issue("apiLogout")

\* -------------------------------------------------- the response status
\* fetch() resolves with a 401 / 403: requestJson clears the session keys,
\* assigns window.location.href and goes on to await res.text().
RecvAuthFailure(i, status) ==
  /\ i \in InFlight
  /\ i.phase = "sent"
  /\ IsAuthFailure(status)
  /\ ls' = StorageAfterStatus(status, ls)
  /\ href' = HrefAfterStatus(status, location, href)
  /\ reqs' = Put(Take(reqs, i),
                 [i EXCEPT !.status = status, !.phase = "text", !.hdr = None])
  /\ last' = [NoLast EXCEPT !.ev = "status", !.op = i.op,
                            !.status = status, !.hdr = i.hdr]
  /\ UNCHANGED << token, me, location, from, view, loginWait, parts >>

\* ------------------------------------------------- what the backend sends
\* In the session machine the backend answers with one representative of
\* each class of body; the full range of bodies goes through the same
\* requestJsonSettle / requestResult in SpecWire below.
EnvData(op) ==
  IF op = "apiLogin" THEN LoginData
  ELSE IF op = "apiGetCurrentUser" THEN BackendUsers
  ELSE {"d1"}
\* the bodies the backend may send with a given status
Bodies(status) ==
  IF ~HttpOk(status)
    THEN {[kind |-> "text", text |-> Rep(2), env |-> NoEnv]}
    ELSE {[kind |-> "json", text |-> << >>, env |-> e] :
            e \in [code : {0, 2}, msg : {"denied"}, data : {"data"}]}
         \cup {[kind |-> "badjson", text |-> << >>, env |-> NoEnv]}
\* the payload of a success envelope, by endpoint
Payloads(op) == EnvData(op)

\* --------------------------------------------- login / logout: effects
\* apiLogin after a successful request (api.ts 819-820)
apiLoginStorage(storage, data) ==
  [storage EXCEPT !.token = TokenOf(data), !.userId = UserIdOf(data)]
\* apiLogin as a whole: the two setItem calls are reached only when
\* requestResult has resolved
\* variant: the payload is stored whatever the outcome
apiLogin_WritesAlways(storage, r) == apiLoginStorage(storage, r.data)
apiLogin(storage, r) ==
  IF r.ok THEN apiLoginStorage(storage, r.data) ELSE storage
\* AuthProvider.login: setItem x2, setToken
AuthLoginStorage(storage, data) ==
  [storage EXCEPT !.token = TokenOf(data), !.userId = UserIdOf(data)]
AuthLoginToken(tok, data) == TokenOf(data)
\* Login.onSuccess: where to go after login
\* variant: always the home page
RedirectTo_Home(frm) == "/"
RedirectTo(frm) == IF frm # None /\ frm # LoginPath THEN frm ELSE "/"

\* apiLogout: try { request } finally { removeItem x2 }; the outcome of the
\* request is passed on.
apiLogoutStorage(r, storage) == ClearedStorage
\* AuthProvider.logout: finally { removeItem x2; setToken(null); clear() }
AuthLogoutStorage(r, storage) == ClearedStorage
\* variant: the cleanup runs only after a successful server call
AuthLogoutToken_NoFinally(r, tok) == IF r.ok THEN None ELSE tok
AuthLogoutToken(r, tok) == None
AuthLogoutQuery(r, q) == EmptyQuery

\* --------------------------------------------------- a call is settled
Meta(i, ev, status) ==
  [NoLast EXCEPT !.ev = ev, !.op = i.op, !.status = status]

Release(i) == Take(reqs, i)

\* a page's mutation: onError shows the error's message in a toast
DonePage(i, r, meta, st0) ==
  /\ i.op \in PageOps
  /\ ls' = st0
  /\ reqs' = Release(i)
  /\ last' = [meta EXCEPT !.ok = r.ok, !.toast = IF r.ok THEN NoErr ELSE r.err]
  /\ UNCHANGED << token, me, location, from, view, loginWait >>

\* queryClient.invalidateQueries({ queryKey: ["me"] }) as AuthProvider.login
\* calls it, with the observer's options of the last render:
\*   "idle"  the query is disabled: it is only marked invalidated, and it
\*           starts fetching when the render with the new token enables it;
\*   "join"  the query is enabled and its first fetch is still running (no
\*           data yet): the running fetch is kept and awaited;
\*   "fetch" otherwise: a running background fetch is abandoned and a new
\*           fetch is started.
InvalidateMe(q, enabled) ==
  IF ~enabled THEN "idle"
  ELSE IF q.fetching /\ q.data = NoUser THEN "join"
  ELSE "fetch"

\* apiLogin's continuation, then Login.onSuccess -> AuthProvider.login, or
\* Login.onError
DoneLogin(i, r, meta, st0) ==
  /\ i.op = "apiLogin"
  /\ IF r.ok
       THEN LET stored == AuthLoginStorage(apiLoginStorage(st0, r.data), r.data)
                how == InvalidateMe(me, token # None)
                q == [me EXCEPT !.fetching = TRUE, !.invalidated = TRUE]
                \* "idle": invalidateQueries resolves at once and onSuccess
                \* goes on to navigate(redirectTo); otherwise login waits
                \* for the fetch
                s == IF how = "idle"
                       THEN Settle(RedirectTo(from), None, q)
                       ELSE Settle(location, from, q)
            IN /\ ls' = stored
               /\ token' = AuthLoginToken(token, r.data)
               /\ me' = q
               /\ reqs' = IF how = "join"
                            THEN Release(i)
                            ELSE Put(Orphan(Release(i)),
                                     SentReq("apiGetCurrentUser", stored))
               /\ loginWait' = IF how = "idle" THEN None ELSE RedirectTo(from)
               /\ location' = s.location
               /\ from' = s.from
               /\ view' = ViewOf(s.location, q)
               /\ last' = [meta EXCEPT !.ok = r.ok, !.login = r.data]
       ELSE /\ ls' = st0
            /\ reqs' = Release(i)
            /\ last' = [meta EXCEPT !.ok = r.ok, !.toast = r.err]
            /\ UNCHANGED << token, me, location, from, view, loginWait >>

\* apiLogout's finally, then AuthProvider.logout's catch and finally
DoneLogout(i, r, meta, st0) ==
  LET q == AuthLogoutQuery(r, me)
      s == IF loginWait # None
             THEN Settle(loginWait, None, q)
             ELSE Settle(location, from, q)
  IN /\ i.op = "apiLogout"
     /\ ls' = AuthLogoutStorage(r, apiLogoutStorage(r, st0))
     /\ token' = AuthLogoutToken(r, token)
     /\ me' = q
     /\ reqs' = Orphan(Release(i))
     /\ loginWait' = None
     /\ location' = s.location
     /\ from' = s.from
     /\ view' = ViewOf(s.location, q)
     /\ last' = [meta EXCEPT !.ok = r.ok, !.logout = LogoutOutcome(r)]

\* the queryFn of ["me"] settles
DoneMe(i, r, meta, st0) ==
  /\ i.op = "apiGetCurrentUser"
  /\ ls' = st0
  /\ reqs' = Release(i)
  /\ last' = [meta EXCEPT !.ok = r.ok]
  /\ IF i.live
       THEN LET q == IF r.ok
                       THEN [data |-> mapBackendUser(r.data),
                             fetching |-> FALSE, invalidated |-> FALSE]
                       ELSE [me EXCEPT !.fetching = FALSE]
                s == IF loginWait # None
                       THEN Settle(loginWait, None, q)
                       ELSE Settle(location, from, q)
            IN /\ me' = q
               /\ loginWait' = None
               /\ location' = s.location
               /\ from' = s.from
               /\ view' = ViewOf(s.location, q)
       ELSE UNCHANGED << me, loginWait, location, from, view >>
  /\ UNCHANGED token

\* st0, hr0: local storage and the pending href as requestJson left them
Done(i, r, meta, st0, hr0) ==
  /\ \/ DonePage(i, r, meta, st0)
     \/ DoneLogin(i, r, meta, st0)
     \/ DoneLogout(i, r, meta, st0)
     \/ DoneMe(i, r, meta, st0)
  /\ href' = hr0
  /\ UNCHANGED parts

\* fetch() itself rejects: no response at all
RecvNetErr(i) ==
  /\ i \in InFlight
  /\ i.phase = "sent"
  /\ Done(i, Rejected(NetErr), Meta(i, "neterr", 0), ls, href)

\* Any other status: requestJson changes nothing before it awaits the body
\* (res.json(), or res.text() of a failure), so the response is taken in
\* one step with its body; then requestResult and the caller finish.
RecvResponse(i, status, body, data) ==
  /\ i \in InFlight
  /\ i.phase = "sent"
  /\ ~IsAuthFailure(status)
  /\ body \in Bodies(status)
  /\ data \in Payloads(i.op)
  /\ Done(i, requestResult(requestJsonSettle(status, body),
                           [body.env EXCEPT !.data = data]),
          Meta(i, "response", status),
          StorageAfterStatus(status, ls),
          HrefAfterStatus(status, location, href))

\* res.text() of a 401 / 403 settles; requestJson throws
RecvAuthBody(i, body) ==
  /\ i \in InFlight
  /\ i.phase = "text"
  /\ body \in Bodies(i.status)
  /\ Done(i, requestResult(requestJsonSettle(i.status, body), body.env),
          Meta(i, "body", i.status), ls, href)

\* ---------------------------------------------------------- <Permission>
PermValues ==
  {[isArray |-> FALSE, one |-> c, many |-> << >>] : c \in PermCodes}
  \cup {[isArray |-> TRUE, one |-> None, many |-> m] :
          m \in UNION {[1..n -> PermCodes] : n \in 0..MaxCodes}}

RenderPermission ==
  /\ perm.out = None
  /\ perm' = [perm EXCEPT !.out = Permission(perm.user, perm.value)]
  /\ UNCHANGED << session, wire, load, fan, equip, page >>

\* -------------------------------------------------------- specifications
Next ==
  \/ ForcedRedirect
  \/ Reload
  \/ \E p \in Paths : OpenUrl(p)
  \/ \E p \in Protected : Navigate(p)
  \/ \E op \in PageOps : PageCall(op)
  \/ LoginSubmit
  \/ LogoutCall
  \/ \E i \in InFlight, st \in StatusSet : RecvAuthFailure(i, st)
  \/ \E i \in InFlight : RecvNetErr(i)
  \/ \E i \in InFlight, st \in StatusSet :
       \E body \in Bodies(st), data \in Payloads(i.op) :
         RecvResponse(i, st, body, data)
  \/ \E i \in InFlight : \E body \in Bodies(i.status) : RecvAuthBody(i, body)

Spec == Init /\ [][Next]_vars

\* Everything but the variable a pure-function specification works on is
\* left as in an idle tab on the login page.
IdleTab ==
  /\ ls = ClearedStorage
  /\ token = None
  /\ me = EmptyQuery
  /\ reqs = AllFree
  /\ location = LoginPath
  /\ from = None
  /\ href = None
  /\ view = "login"
  /\ loginWait = None
  /\ last = NoLast

\* <Permission> on its own: any user, any value
InitPerm ==
  /\ IdleTab
  /\ wire = NoWire
  /\ load = NoLoad
  /\ fan = NoFan
  /\ equip = NoEquip
  /\ page = NoPage
  /\ perm \in [user : AnyUsers \cup {NoUser}, value : PermValues, out : {None}]

NextPerm == RenderPermission

SpecPerm == InitPerm /\ [][NextPerm]_vars

\* requestJson / requestResult on their own: any status, any body
AllData == PlainData \cup LoginData \cup BackendUsers
WireBodies(status) ==
  IF ~HttpOk(status)
    THEN {[kind |-> "text", text |-> t, env |-> NoEnv] : t \in BodyTexts}
         \cup {[kind |-> "unreadable", text |-> << >>, env |-> NoEnv]}
    ELSE {[kind |-> "json", text |-> << >>, env |-> e] :
            e \in [code : Codes, msg : Msgs, data : AllData]}
         \cup {[kind |-> "badjson", text |-> << >>, env |-> NoEnv]}

InitWire ==
  /\ IdleTab
  /\ perm = NoPerm
  /\ load = NoLoad
  /\ fan = NoFan
  /\ equip = NoEquip
  /\ page = NoPage
  /\ \E st \in StatusSet, stg \in StoredSessions : \E b \in WireBodies(st) :
       wire = [NoWire EXCEPT !.status = st, !.body = b, !.storage = stg,
                             !.stored = stg]

SettleWire ==
  /\ ~wire.done
  /\ LET r == requestResult(requestJsonSettle(wire.status, wire.body),
                            wire.body.env)
     IN wire' = [wire EXCEPT
                   !.done = TRUE,
                   !.out = r,
                   !.stored = apiLogin(StorageAfterStatus(wire.status,
                                                          wire.storage), r)]
  /\ UNCHANGED << session, perm, load, fan, equip, page >>

NextWire == SettleWire

SpecWire == InitWire /\ [][NextWire]_vars

\* ----------------------------------------------------- a page's data load
\* the user opens the page, presses refresh or submits: the load starts
LoadTrigger ==
  /\ load.state \in {"idle", "error", "success"}
  /\ load.trig < MaxTrig
  /\ load' = [load EXCEPT !.state = "fetching", !.failureCount = 0,
                          !.attempts = 1, !.trig = @ + 1, !.err = NoErr]
  /\ UNCHANGED << session, perm, wire, fan, equip, page >>

\* the adapter call of the load has settled with r
LoadSettled(r) ==
  IF r.ok
    THEN [load EXCEPT !.state = "success", !.err = NoErr]
    ELSE IF load.failureCount < Retry(load.kind)
      THEN [load EXCEPT !.state = "waiting", !.failureCount = @ + 1,
                        !.err = r.err]
      ELSE [load EXCEPT !.state = "error", !.err = r.err]

LoadRecv(status, body) ==
  /\ load.state = "fetching"
  /\ body \in Bodies(status)
  /\ load' = LoadSettled(requestResult(requestJsonSettle(status, body),
                                       body.env))
  /\ ls' = StorageAfterStatus(status, ls)
  /\ href' = HrefAfterStatus(status, location, href)
  /\ UNCHANGED << token, me, location, from, view, reqs, loginWait, last,
                  perm, wire, fan, equip, page >>

LoadNetErr ==
  /\ load.state = "fetching"
  /\ load' = LoadSettled(Rejected(NetErr))
  /\ UNCHANGED << session, perm, wire, fan, equip, page >>

\* the retry delay of the query is over: the query function runs again
LoadRetry ==
  /\ load.state = "waiting"
  /\ load' = [load EXCEPT !.state = "fetching", !.attempts = @ + 1]
  /\ UNCHANGED << session, perm, wire, fan, equip, page >>

InitLoad ==
  /\ IdleTab
  /\ perm = NoPerm
  /\ wire = NoWire
  /\ fan = NoFan
  /\ equip = NoEquip
  /\ page = NoPage
  /\ \E k \in LoadKinds : load = [NoLoad EXCEPT !.kind = k]

NextLoad ==
  \/ LoadTrigger
  \/ \E st \in StatusSet : \E body \in Bodies(st) : LoadRecv(st, body)
  \/ LoadNetErr
  \/ LoadRetry

SpecLoad == InitLoad /\ [][NextLoad]_vars

\* ------------------------------------------------- fan-out and fan-in
\* apiCreateMeeting pairs the room list with POST /api/meetings; the POST's
\* slot holds the created meeting as a list of one
FanOps == {"apiGetMeetings", "apiGetTodayMeetings", "apiCreateMeeting"}
\* the rooms and meetings the backend may send; room 3 is in no room list
BackendRooms == [id : {1, 2}, name : {"A", "B"}, equipment : {Absent}]
BackendMeetings == [id : {7}, roomId : {1, 2, 3}, status : {"scheduled"}]
RoomLists == UNION {[1..n -> BackendRooms] : n \in 0..MaxRooms}
MeetingLists == UNION {[1..n -> BackendMeetings] : n \in 0..MaxMeet}

\* Promise.all over the two calls, then the mapping of the caller: it
\* rejects with the first rejection and resolves when both have resolved.
\* variant: the second request alone decides
PromiseAll_SecondOnly(out, rooms, meetings, e) ==
  IF out.state = "rejected" THEN out
  ELSE IF meetings.state = "failed"
    THEN [state |-> "rejected", data |-> << >>, err |-> e]
  ELSE IF meetings.state = "ok"
    THEN [state |-> "resolved",
          data |-> MapMeetings(rooms.val, meetings.val), err |-> NoErr]
  ELSE out
\* variant: the room list alone decides
PromiseAll_RoomsOnly(out, rooms, meetings, e) ==
  IF out.state = "rejected" THEN out
  ELSE IF rooms.state = "failed"
    THEN [state |-> "rejected", data |-> << >>, err |-> e]
  ELSE IF rooms.state = "ok"
    THEN [state |-> "resolved",
          data |-> MapMeetings(rooms.val, meetings.val), err |-> NoErr]
  ELSE out
PromiseAll(out, rooms, meetings, e) ==
  IF out.state = "rejected" THEN out
  ELSE IF rooms.state = "failed" \/ meetings.state = "failed"
    THEN [state |-> "rejected", data |-> << >>, err |-> e]
  ELSE IF rooms.state = "ok" /\ meetings.state = "ok"
    THEN [state |-> "resolved",
          data |-> MapMeetings(rooms.val, meetings.val), err |-> NoErr]
  ELSE out

\* the array literal is evaluated: apiGetMeetingRooms() and requestResult()
\* each run up to their fetch, then Promise.all is awaited
FanCall(op) ==
  /\ fan.out.state = "none"
  /\ fan' = [fan EXCEPT !.op = op, !.rooms = SentSlot, !.meetings = SentSlot,
                        !.out = [NoOut EXCEPT !.state = "pending"]]
  /\ UNCHANGED << session, perm, wire, load, equip, page >>

\* the response to one of the two requests is taken through requestJson and
\* requestResult; list is what a success envelope carries
FanRecv(which, status, body, list) ==
  LET r == requestResult(requestJsonSettle(status, body), body.env)
      slot == IF ~r.ok THEN FailedSlot(r.err)
              ELSE IF which = "rooms"
                THEN OkSlot(list, apiGetMeetingRooms(list))
                ELSE OkSlot(list, list)
      rooms == IF which = "rooms" THEN slot ELSE fan.rooms
      meetings == IF which = "meetings" THEN slot ELSE fan.meetings
  IN /\ fan[which].state = "sent"
     /\ body \in Bodies(status)
     /\ list \in (IF which = "rooms" THEN RoomLists ELSE MeetingLists)
     /\ ~r.ok => list = << >>
     /\ (r.ok /\ which = "meetings" /\ fan.op = "apiCreateMeeting") =>
          Len(list) = 1
     /\ fan' = [fan EXCEPT
                  !.rooms = rooms,
                  !.meetings = meetings,
                  !.first = IF fan.first = None THEN which ELSE fan.first,
                  !.out = PromiseAll(fan.out, rooms, meetings, r.err)]
     /\ ls' = StorageAfterStatus(status, ls)
     /\ href' = HrefAfterStatus(status, location, href)
     /\ UNCHANGED << token, me, location, from, view, reqs, loginWait, last,
                     perm, wire, load, equip, page >>

InitFan ==
  /\ IdleTab
  /\ perm = NoPerm
  /\ wire = NoWire
  /\ load = NoLoad
  /\ equip = NoEquip
  /\ page = NoPage
  /\ fan = NoFan

NextFan ==
  \/ \E op \in FanOps : FanCall(op)
  \/ \E st \in StatusSet : \E body \in Bodies(st), list \in RoomLists :
       FanRecv("rooms", st, body, list)
  \/ \E st \in StatusSet : \E body \in Bodies(st), list \in MeetingLists :
       FanRecv("meetings", st, body, list)

SpecFan == InitFan /\ [][NextFan]_vars

\* mapBackendMeetingRoom on its own: any equipment string
Texts(n) == UNION {[1..k -> Chars] : k \in 0..n}
EquipValues == {Absent} \cup {Present(t) : t \in Texts(MaxEquip)}

InitEquip ==
  /\ IdleTab
  /\ perm = NoPerm
  /\ wire = NoWire
  /\ load = NoLoad
  /\ fan = NoFan
  /\ page = NoPage
  /\ \E e \in EquipValues :
       equip = [NoEquip EXCEPT !.room.equipment = e]

MapRoom ==
  /\ ~equip.done
  /\ equip' = [equip EXCEPT
                 !.done = TRUE,
                 !.out = mapBackendMeetingRoom(equip.room).equipment]
  /\ UNCHANGED << session, perm, wire, load, fan, page >>

NextEquip == MapRoom

SpecEquip == InitEquip /\ [][NextEquip]_vars

\* ====================================================== page components
\* A page keeps its dialogs, forms and selection in useState and reaches
\* the backend through useMutation / useQuery.  One page is mounted at a
\* time; page.unit names it.
MaxText == 1

\* the mutations of the pages that edit through dialogs
Mutations ==
  [workflows |-> {"createWorkflow", "approveWorkflow", "rejectWorkflow"},
   departments |-> {"createDepartment", "deleteDepartment"},
   meetings |-> {"createMeeting", "deleteMeeting"}]

\* What the user does between requests: the create dialog is opened or
\* closed (the department dialog resets its form when it closes), the form
\* filled in, a list entry selected (the approve button of a workflow card
\* also empties the comment) or the detail dialog closed, the approval
\* comment typed; in the chat, the message typed (its field is disabled
\* while a request is running).
UserEdit ==
  /\ \/ /\ page.unit \in DOMAIN Mutations
        /\ page' = [page EXCEPT !.open = TRUE, !.step = "edit"]
     \/ /\ page.unit \in DOMAIN Mutations
        /\ page' = [page EXCEPT
                      !.open = FALSE,
                      !.form = IF page.unit = "departments" THEN "blank"
                               ELSE @,
                      !.step = "edit"]
     \/ /\ page.unit \in DOMAIN Mutations
        /\ page.open
        /\ page' = [page EXCEPT !.form = "filled", !.step = "edit"]
     \/ /\ page.unit \in {"workflows", "departments"}
        /\ \E c \in {page.comment, << >>} :
             page' = [page EXCEPT !.selected = TRUE, !.comment = c,
                                  !.step = "edit"]
     \/ /\ page.unit = "workflows"
        /\ page' = [page EXCEPT !.selected = FALSE, !.step = "edit"]
     \/ /\ page.unit = "workflows" /\ page.selected
        /\ \E text \in UNION {[1..k -> {"a", Space}] : k \in 0..MaxText} :
             page' = [page EXCEPT !.comment = text, !.step = "edit"]
     \/ /\ page.unit = "chat" /\ ~page.isLoading
        /\ \E text \in UNION {[1..k -> {"a", Space}] : k \in 0..MaxText} :
             page' = [page EXCEPT !.input = text, !.step = "edit"]
  /\ UNCHANGED << session, perm, wire, load, fan, equip >>

\* handleApprove: the comment goes along when there is one
handleApprove(p) ==
  [p EXCEPT
     !.pending = @ \cup {"approveWorkflow"},
     !.sent = [kind |-> "approveWorkflow",
               comment |-> IF Truthy(p.comment) THEN Present(p.comment)
                           ELSE Absent],
     !.step = "handleApprove"]

\* handleReject: an error toast and no request unless a reason is given
\* variant: the comment is not trimmed before it is tested
handleReject_NoTrim(p) ==
  IF ~Truthy(p.comment) THEN [p EXCEPT !.step = "handleReject"]
  ELSE [p EXCEPT
          !.pending = @ \cup {"rejectWorkflow"},
          !.sent = [kind |-> "rejectWorkflow",
                    comment |-> Present(p.comment)],
          !.step = "handleReject"]
handleReject(p) ==
  IF ~Truthy(trim(p.comment)) THEN [p EXCEPT !.step = "handleReject"]
  ELSE [p EXCEPT
          !.pending = @ \cup {"rejectWorkflow"},
          !.sent = [kind |-> "rejectWorkflow",
                    comment |-> Present(p.comment)],
          !.step = "handleReject"]

\* The handler behind a submit, approve, reject or delete button.  Each
\* button is disabled while its mutation is pending.  The create handlers
\* validate the form first; handleDeleteDepartment needs a selection; the
\* approve and reject buttons are in the detail dialog of the selection.
Mutate(kind) ==
  /\ page.unit \in DOMAIN Mutations
  /\ kind \in Mutations[page.unit] \ page.pending
  /\ kind \in {"createWorkflow", "createDepartment", "createMeeting"} =>
       page.open
  /\ kind \in {"approveWorkflow", "rejectWorkflow"} => page.selected
  /\ page' =
       IF kind = "approveWorkflow" THEN handleApprove(page)
       ELSE IF kind = "rejectWorkflow" THEN handleReject(page)
       ELSE IF \/ page.form = "blank" /\ kind \notin {"deleteMeeting",
                                                       "deleteDepartment"}
               \/ kind = "deleteDepartment" /\ ~page.selected
         THEN [page EXCEPT !.step = "refused"]
       ELSE [page EXCEPT
               !.pending = @ \cup {kind},
               !.sent = [kind |-> kind, comment |-> Absent],
               !.step = "mutate"]
  /\ UNCHANGED << session, perm, wire, load, fan, equip >>

\* a mutation's onSuccess
\* variant: every mutation closes the dialog and resets the form
onSuccess_AlwaysCloses(kind, p) ==
  [p EXCEPT !.stale = TRUE, !.open = FALSE, !.form = "blank",
            !.selected = FALSE, !.comment = << >>]
onSuccess(kind, p) ==
  IF kind \in {"createWorkflow", "createDepartment", "createMeeting"}
    THEN [p EXCEPT !.stale = TRUE, !.open = FALSE, !.form = "blank"]
  ELSE IF kind \in {"approveWorkflow", "rejectWorkflow"}
    THEN [p EXCEPT !.stale = TRUE, !.selected = FALSE, !.comment = << >>]
  ELSE IF kind = "deleteDepartment"
    THEN [p EXCEPT !.stale = TRUE, !.selected = FALSE]
  ELSE [p EXCEPT !.stale = TRUE]

\* The request of a pending mutation settles: onSuccess, or onError, which
\* shows a toast and changes no state.
SettleMutation(kind, ok) ==
  /\ page.unit \in DOMAIN Mutations
  /\ kind \in page.pending
  /\ page' = [(IF ok THEN onSuccess(kind, page) ELSE page) EXCEPT
                !.pending = @ \ {kind},
                !.step = IF ok THEN "onSuccess" ELSE "onError",
                !.settled = kind]
  /\ UNCHANGED << session, perm, wire, load, fan, equip >>

\* the invalidated list query is fetched again
Refetch ==
  /\ page.unit \in DOMAIN Mutations
  /\ page.stale
  /\ page' = [page EXCEPT !.stale = FALSE, !.step = "refetch"]
  /\ UNCHANGED << session, perm, wire, load, fan, equip >>

\* ------------------------------------------------------------ Dashboard
MaxLoads == 2

\* loadData up to its await: setLoading(true) and the four adapter calls of
\* the array passed to Promise.all.  The refresh button is disabled while
\* loading; the mount effect makes the first call.
loadData ==
  /\ page.unit = "dashboard"
  /\ ~page.loading
  /\ page.call < MaxLoads
  /\ page' = [page EXCEPT
                !.loading = TRUE,
                !.call = @ + 1,
                !.slots = [n \in DOMAIN @ |-> "sent"],
                !.out = "pending",
                !.step = "loadData"]
  /\ UNCHANGED << session, perm, wire, load, fan, equip >>

\* One of the four calls settles.  The first rejection rejects Promise.all
\* and loadData continues in catch; the fourth success resolves it and
\* loadData continues after the await; finally runs in both cases.  What
\* an earlier, rejected loadData still has in flight sets no state.
\* variant: each result is stored as it arrives
LoadDataSettle_Piecewise(name, ok, msg) ==
  LET slots == [page.slots EXCEPT ![name] = IF ok THEN "ok" ELSE "failed"]
      all == \A n \in DOMAIN slots : slots[n] = "ok"
  IN /\ page.unit = "dashboard"
     /\ page.slots[name] = "sent"
     /\ page' =
          IF page.out # "pending"
            THEN [page EXCEPT !.slots = slots, !.step = "late"]
          ELSE IF ~ok
            THEN [page EXCEPT !.slots = slots, !.out = "rejected",
                              !.error = IF msg # "" THEN msg ELSE "LOADFAIL",
                              !.loading = FALSE, !.step = "catch"]
          ELSE [page EXCEPT !.slots = slots,
                            !.data[name] = page.call,
                            !.out = IF all THEN "resolved" ELSE @,
                            !.error = IF all THEN None ELSE @,
                            !.loading = IF all THEN FALSE ELSE @,
                            !.step = IF all THEN "then" ELSE "wait"]
     /\ UNCHANGED << session, perm, wire, load, fan, equip >>
LoadDataSettle(name, ok, msg) ==
  LET slots == [page.slots EXCEPT ![name] = IF ok THEN "ok" ELSE "failed"]
      all == \A n \in DOMAIN slots : slots[n] = "ok"
  IN /\ page.unit = "dashboard"
     /\ page.slots[name] = "sent"
     /\ page' =
          IF page.out # "pending"
            THEN [page EXCEPT !.slots = slots, !.step = "late"]
          ELSE IF ~ok
            THEN [page EXCEPT !.slots = slots, !.out = "rejected",
                              !.error = IF msg # "" THEN msg ELSE "LOADFAIL",
                              !.loading = FALSE, !.step = "catch"]
          ELSE IF all
            THEN [page EXCEPT !.slots = slots, !.out = "resolved",
                              !.data = [n \in DOMAIN @ |-> page.call],
                              !.error = None,
                              !.loading = FALSE, !.step = "then"]
          ELSE [page EXCEPT !.slots = slots, !.step = "wait"]
     /\ UNCHANGED << session, perm, wire, load, fan, equip >>

\* ------------------------------------------------------- workflow lists
MaxFlows == 1

\* a task becomes a UI workflow; "LC" stands for the default title
mapTaskToWorkflow(t) ==
  [id |-> IF t.processInstanceId.has /\ Truthy(t.processInstanceId.text)
            THEN t.processInstanceId.text ELSE t.id,
   title |-> IF t.name.has /\ Truthy(t.name.text)
               THEN t.name.text ELSE << "LC" >>,
   type |-> "leave", applicant |-> << >>, department |-> << >>,
   status |-> "pending", approvers |-> << >>]

\* a process instance becomes a UI workflow
\* variant: a suspended instance is shown as rejected
mapProcessInstanceToWorkflow_Suspended(p) ==
  [id |-> p.id,
   title |-> IF p.name.has /\ Truthy(p.name.text) THEN p.name.text
             ELSE IF p.processDefinitionName.has
                     /\ Truthy(p.processDefinitionName.text)
               THEN p.processDefinitionName.text ELSE << "LC" >>,
   type |-> "leave", applicant |-> << >>, department |-> << >>,
   status |-> IF p.suspended THEN "rejected" ELSE "pending",
   approvers |-> << >>]
mapProcessInstanceToWorkflow(p) ==
  [id |-> p.id,
   title |-> IF p.name.has /\ Truthy(p.name.text) THEN p.name.text
             ELSE IF p.processDefinitionName.has
                     /\ Truthy(p.processDefinitionName.text)
               THEN p.processDefinitionName.text ELSE << "LC" >>,
   type |-> "leave", applicant |-> << >>, department |-> << >>,
   status |-> "pending", approvers |-> << >>]

\* whether a workflow card offers the approve button
canApprove(activeTab, workflow) ==
  activeTab = "pending" /\ workflow.status \in {"pending", "processing"}

\* the user picks a tab; its list is empty until the tab's query has data
ShowTab(tab) ==
  /\ page.unit = "workflowList"
  /\ page' = [page EXCEPT !.activeTab = tab, !.op = None, !.raw = << >>,
                          !.out = << >>]
  /\ UNCHANGED << session, perm, wire, load, fan, equip >>

\* An adapter call returns: the records of the backend page, or the one
\* record of a created process instance, go through the mapper.  The two
\* page queries are enabled on their own tab only.
AdapterCall(op, records) ==
  /\ page.unit = "workflowList"
  /\ page.op = None
  /\ op = "apiGetPendingWorkflows" => page.activeTab = "pending"
  /\ op = "apiGetMyWorkflows" => page.activeTab = "my"
  /\ op = "apiCreateWorkflow" => Len(records) = 1
  /\ page' = [page EXCEPT
                !.op = op,
                !.raw = records,
                !.out = [k \in 1..Len(records) |->
                           IF op = "apiGetPendingWorkflows"
                             THEN mapTaskToWorkflow(records[k])
                             ELSE mapProcessInstanceToWorkflow(records[k])]]
  /\ UNCHANGED << session, perm, wire, load, fan, equip >>

\* -------------------------------------------------------------- AI chat
MaxSends == 2

\* handleSend up to its await: nothing happens for a blank input, while
\* loading, or without an API key; otherwise the user's message is added,
\* the input emptied, loading set and the request made.
handleSend ==
  LET trimmedInput == trim(page.input)
  IN /\ page.unit = "chat"
     /\ page.sends < MaxSends
     /\ page' =
          IF ~Truthy(trimmedInput) \/ page.isLoading \/ ~page.key
            THEN [page EXCEPT !.step = "handleSend"]
            ELSE [page EXCEPT
                    !.messages = Append(@, [role |-> "user",
                                            content |-> trimmedInput]),
                    !.input = << >>,
                    !.isLoading = TRUE,
                    !.inflight = @ + 1,
                    !.sends = @ + 1,
                    !.step = "handleSend"]
     /\ UNCHANGED << session, perm, wire, load, fan, equip >>

\* callDeepseekAPI settles and handleSend continues: the reply is added,
\* or, when the call threw (no response, a non-OK response, a body without
\* a reply), the apology; finally clears loading.
\* variant: a failed call adds no message
callDeepseekAPI_Silent(ok) ==
  /\ page.unit = "chat"
  /\ page.inflight > 0
  /\ page' = [page EXCEPT
                !.messages = IF ok
                               THEN Append(@, [role |-> "assistant",
                                               content |-> << "REPLY" >>])
                               ELSE @,
                !.isLoading = FALSE,
                !.inflight = @ - 1,
                !.step = IF ok THEN "reply" ELSE "catch"]
  /\ UNCHANGED << session, perm, wire, load, fan, equip >>
callDeepseekAPI(ok) ==
  /\ page.unit = "chat"
  /\ page.inflight > 0
  /\ page' = [page EXCEPT
                !.messages = Append(@, [role |-> "assistant",
                                        content |-> IF ok THEN << "REPLY" >>
                                                    ELSE << "SORRY" >>]),
                !.isLoading = FALSE,
                !.inflight = @ - 1,
                !.step = IF ok THEN "reply" ELSE "catch"]
  /\ UNCHANGED << session, perm, wire, load, fan, equip >>

\* ------------------------------------------- local notification list
unreadCount(notifications) ==
  Len(SelectSeq(notifications, LAMBDA n : ~n.isRead))

\* variant: the flag is flipped
handleMarkAsRead_Toggle(id) ==
  /\ page.unit = "notifications"
  /\ \E k \in DOMAIN page.notifications : page.notifications[k].id = id
  /\ page' = [page EXCEPT
                !.notifications =
                  [k \in DOMAIN @ |->
                     IF @[k].id = id
                       THEN [@[k] EXCEPT !.isRead = ~@]
                       ELSE @[k]],
                !.step = [op |-> "handleMarkAsRead", id |-> id]]
  /\ UNCHANGED << session, perm, wire, load, fan, equip >>
handleMarkAsRead(id) ==
  /\ page.unit = "notifications"
  /\ \E k \in DOMAIN page.notifications : page.notifications[k].id = id
  /\ page' = [page EXCEPT
                !.notifications =
                  [k \in DOMAIN @ |->
                     IF @[k].id = id THEN [@[k] EXCEPT !.isRead = TRUE]
                     ELSE @[k]],
                !.step = [op |-> "handleMarkAsRead", id |-> id]]
  /\ UNCHANGED << session, perm, wire, load, fan, equip >>

\* the button is disabled when nothing is unread
handleMarkAllAsRead ==
  /\ page.unit = "notifications"
  /\ unreadCount(page.notifications) # 0
  /\ page' = [page EXCEPT
                !.notifications =
                  [k \in DOMAIN @ |-> [@[k] EXCEPT !.isRead = TRUE]],
                !.step = [op |-> "handleMarkAllAsRead", id |-> None]]
  /\ UNCHANGED << session, perm, wire, load, fan, equip >>

handleDelete(id) ==
  /\ page.unit = "notifications"
  /\ \E k \in DOMAIN page.notifications : page.notifications[k].id = id
  /\ page' = [page EXCEPT
                !.notifications = SelectSeq(@, LAMBDA n : n.id # id),
                !.step = [op |-> "handleDelete", id |-> id]]
  /\ UNCHANGED << session, perm, wire, load, fan, equip >>

InitPage ==
  /\ IdleTab
  /\ perm = NoPerm
  /\ wire = NoWire
  /\ load = NoLoad
  /\ fan = NoFan
  /\ equip = NoEquip
  /\ \/ \E u \in DOMAIN Mutations :
          page = [unit |-> u, open |-> FALSE, form |-> "blank",
                  selected |-> FALSE, comment |-> << >>, stale |-> FALSE,
                  pending |-> {}, settled |-> None,
                  sent |-> [kind |-> None, comment |-> Absent],
                  step |-> "mount"]
     \/ page = [unit |-> "dashboard", loading |-> FALSE, error |-> None,
                data |-> [stats |-> 0, workflows |-> 0, todayMeetings |-> 0,
                          recentNotifications |-> 0],
                slots |-> [stats |-> "idle", workflows |-> "idle",
                           todayMeetings |-> "idle",
                           recentNotifications |-> "idle"],
                out |-> "none", call |-> 0, step |-> "mount"]
     \/ page = [unit |-> "workflowList", activeTab |-> "pending",
                op |-> None, raw |-> << >>, out |-> << >>]
     \/ \E key \in BOOLEAN :
          page = [unit |-> "chat", key |-> key, input |-> << >>,
                  isLoading |-> FALSE,
                  messages |-> << [role |-> "assistant",
                                   content |-> << "HELLO" >>] >>,
                  inflight |-> 0, sends |-> 0, step |-> "mount"]
     \/ page = [unit |-> "notifications",
                notifications |->
                  << [id |-> "1", isRead |-> FALSE],
                     [id |-> "2", isRead |-> FALSE],
                     [id |-> "3", isRead |-> TRUE],
                     [id |-> "4", isRead |-> TRUE],
                     [id |-> "5", isRead |-> FALSE],
                     [id |-> "6", isRead |-> FALSE] >>,
                step |-> [op |-> "mount", id |-> None]]

NextPage ==
  \/ UserEdit
  \/ \E u \in DOMAIN Mutations : \E kind \in Mutations[u] : Mutate(kind)
  \/ \E u \in DOMAIN Mutations : \E kind \in Mutations[u], ok \in BOOLEAN :
       SettleMutation(kind, ok)
  \/ Refetch
  \/ loadData
  \/ \E name \in {"stats", "workflows", "todayMeetings",
                   "recentNotifications"} :
       \E ok \in BOOLEAN, msg \in {"E1", "E2"} :
         LoadDataSettle(name, ok, msg)
  \/ \E tab \in {"pending", "my"} : ShowTab(tab)
  \/ \E op \in {"apiGetWorkflows", "apiGetMyWorkflows",
                 "apiGetPendingWorkflows", "apiCreateWorkflow"} :
       \E records \in UNION {[1..n ->
             [id : {<< "a" >>, << "b" >>},
              processInstanceId : {Absent, Present(<< "c" >>)},
              name : {Absent, Present(<< >>), Present(<< "n" >>)},
              processDefinitionName : {Present(<< "d" >>)},
              suspended : BOOLEAN]] : n \in 0..MaxFlows} :
         AdapterCall(op, records)
  \/ handleSend
  \/ \E ok \in BOOLEAN : callDeepseekAPI(ok)
  \/ \E id \in {"1", "2", "3", "4", "5", "6"} : handleMarkAsRead(id)
  \/ handleMarkAllAsRead
  \/ \E id \in {"1", "2", "3", "4", "5", "6"} : handleDelete(id)

SpecPage == InitPage /\ [][NextPage]_vars

\* a request that was made is eventually answered or fails
SpecPageFair ==
  SpecPage /\ WF_vars(\E ok \in BOOLEAN : callDeepseekAPI(ok))

\* ================================================================ claims
BrowserTarget == IF href # None THEN href ELSE location
AuthStatuses == {401, 403}
SessionOps == {"apiLogin", "apiLogout"}

\* C1: whichever adapter function issued the request, once a 401 or 403
\* response status has been received the keys "token" and "userId" are gone
\* from local storage and the browser is at, or on its way to, /login.
C1_AuthFailureEndsSession ==
  (last.ev \in {"status", "response"} /\ last.status \in AuthStatuses)
    => /\ ls.token = None
       /\ ls.userId = None
       /\ BrowserTarget = LoginPath

\* C1 witness: a page's request sent with a token was answered 403 and the
\* redirect to /login is pending.
C1_Witness ==
  /\ last.ev = "status"
  /\ last.status = 403
  /\ last.op \in PageOps
  /\ last.hdr # None
  /\ ls = ClearedStorage
  /\ href = LoginPath

\* C2: when AuthProvider.logout has completed, "token" and "userId" are
\* absent from local storage and the in-memory token is null, whatever the
\* server call did (success, error status, failure code, network error),
\* also when the state was already cleared.
C2_LogoutClearsSession ==
  last.logout # None
    => /\ ls.token = None
       /\ ls.userId = None
       /\ token = None

\* C2 witness: the server call failed at the network level and the session
\* is cleared all the same.
C2_Witness ==
  /\ last.op = "apiLogout"
  /\ last.ev = "neterr"
  /\ last.logout # None
  /\ ls = ClearedStorage
  /\ token = None

\* C3: the promise of AuthProvider.logout resolves, also when apiLogout
\* rejected.
C3_LogoutNeverRejects ==
  (last.op = "apiLogout" /\ last.ev \in {"neterr", "response", "body"})
    => last.logout = "resolved"

\* C3 witness: apiLogout rejected with an HTTP failure and logout resolved.
C3_Witness ==
  /\ last.op = "apiLogout"
  /\ ~last.ok
  /\ last.status = 500
  /\ last.logout = "resolved"

\* C4 as stated: a step of any adapter operation other than login and
\* logout leaves local storage unchanged.
C4_Original ==
  [][last'.op \notin SessionOps => ls' = ls]_vars

\* C4 as amended: local storage is written only by the login and logout
\* operations and by requestJson when it receives a 401 or 403; every other
\* step leaves it unchanged; and a request is sent with the header built
\* from the token that is in storage when it is issued.
C4_StorageWriters ==
  [][/\ ls' # ls =>
          \/ last'.op \in SessionOps
          \/ last'.ev = "status" /\ last'.status \in AuthStatuses
     /\ last'.ev = "issue" =>
          /\ ls' = ls
          /\ \E r \in BagToSet(reqs') :
               r.op = last'.op /\ r.phase = "sent" /\ r.hdr = ls.token]_vars

\* C4 witness: a page's request failed with a 500 while a token was stored,
\* and the token is still there.
C4_Witness ==
  /\ last.ev = "response"
  /\ last.op \in PageOps
  /\ last.status = 500
  /\ ls.token # None

\* C5: a 401 or 403 is not handed to the calling component as a
\* request-failure error that the component shows.
C5_AuthFailureNotShown ==
  ~(last.toast.kind = "http" /\ last.toast.status \in AuthStatuses)

\* C6: an OK response whose envelope code is 0 or 1 makes requestResult
\* resolve with the envelope's data, whatever data and msg are.
C6_SuccessReturnsData ==
  (wire.done /\ HttpOk(wire.status) /\ wire.body.kind = "json"
     /\ wire.body.env.code \in {0, 1})
    => /\ wire.out.ok
       /\ wire.out.data = wire.body.env.data

\* C6 witness: code 1 with an empty-string payload came back as it was.
C6_Witness ==
  /\ wire.done
  /\ wire.status = 200
  /\ wire.body.kind = "json"
  /\ wire.body.env.code = 1
  /\ wire.body.env.data = ""
  /\ wire.body.env.msg = "denied"
  /\ wire.out.ok

\* C7 as stated: an OK response whose envelope code is neither 0 nor 1
\* makes requestResult reject with the server's msg as the message.
C7_Original ==
  (wire.done /\ HttpOk(wire.status) /\ wire.body.kind = "json"
     /\ wire.body.env.code \notin {0, 1})
    => /\ ~wire.out.ok
       /\ wire.out.err.kind = "app"
       /\ wire.out.err.msg = wire.body.env.msg

\* C7 as amended: ... rejects, with the server's msg as the message when
\* msg is not empty and with the fixed fallback text when it is.
C7_FailureCodeRejects ==
  (wire.done /\ HttpOk(wire.status) /\ wire.body.kind = "json"
     /\ wire.body.env.code \notin {0, 1})
    => /\ ~wire.out.ok
       /\ wire.out.err.kind = "app"
       /\ wire.out.err.msg =
            IF wire.body.env.msg # "" THEN wire.body.env.msg ELSE DefaultMsg

\* C7 witness: code 2 with msg "denied" was rejected with "denied".
C7_Witness ==
  /\ wire.done
  /\ wire.status = 200
  /\ wire.body.kind = "json"
  /\ wire.body.env.code = 2
  /\ ~wire.out.ok
  /\ wire.out.err.msg = "denied"

\* C8 as stated: hasPermission is true for every code exactly when a user
\* is loaded, whatever the role, and <Permission> renders its children
\* exactly when a user is loaded.
C8_Original ==
  perm.out # None
    => /\ \A p \in PermCodes :
            hasPermission(perm.user, p) <=> perm.user # NoUser
       /\ perm.out = "children" <=> perm.user # NoUser

\* C8 as amended: hasPermission is true for every code exactly when a user
\* is loaded, whatever the role; <Permission> renders its children exactly
\* when a user is loaded and at least one code is given, and its fallback
\* otherwise (an empty array of codes renders the fallback for everyone).
C8_BlanketAllow ==
  perm.out # None
    => /\ \A p \in PermCodes :
            hasPermission(perm.user, p) <=> perm.user # NoUser
       /\ perm.out = "children" <=>
            (perm.user # NoUser /\ Len(PermissionCodes(perm.value)) > 0)
       /\ perm.out \in {"children", "fallback"}

\* C8 witness: a user who is not an admin got the children.
C8_Witness ==
  /\ perm.user # NoUser
  /\ perm.user.role = "employee"
  /\ perm.value.isArray
  /\ Len(perm.value.many) = 2
  /\ perm.out = "children"

\* C9: a protected route shows its content only while a user profile is
\* loaded, shows nothing while the profile is loading, and once loading is
\* over with no user the guard has navigated to /login.
C9_RouteGate ==
  /\ view = "content" => (location \in Protected /\ me.data # NoUser)
  /\ (location \in Protected /\ IsLoading(me)) => view = "nothing"
  /\ (~IsLoading(me) /\ me.data = NoUser) =>
       (location = LoginPath /\ view = "login")

\* C9 witness: logout has just completed on a protected page and the guard
\* has sent the browser to /login.
C9_Witness ==
  /\ last.logout # None
  /\ me.data = NoUser
  /\ location = LoginPath
  /\ from \in Protected

\* C10: when AuthProvider.login has been called with a token and a user
\* id, both are in local storage, the in-memory token is that token, the
\* ["me"] query is invalidated, and a fetch of the current user that the
\* query will take is in flight with the new token.  (No later step of the
\* program issues that fetch on behalf of this login, so "eventually
\* issued" is "issued by the login step and the render it causes".)
C10_LoginRefetches ==
  last.login # None
    => /\ ls.token = TokenOf(last.login)
       /\ ls.userId = UserIdOf(last.login)
       /\ token = TokenOf(last.login)
       /\ me.invalidated
       /\ me.fetching
       /\ \E r \in InFlight :
            /\ r.op = "apiGetCurrentUser"
            /\ r.live
            /\ r.phase = "sent"
            /\ r.hdr = TokenOf(last.login)

\* the steps in which an adapter call settles
SettleEvents == {"neterr", "response", "body"}

\* C11: every request is sent with the token that is in local storage at
\* the moment it is issued as the value of its Authorization header, and
\* with no Authorization header when no token is stored.  (A request that
\* a step adds is one that is awaiting its response and was not there, or
\* not that many times, before the step; a page load starts from no
\* requests at all.)
C11_RequestsCarryToken ==
  [][\A r \in BagToSet(reqs') :
       (/\ r.phase = "sent"
        /\ r = Alive(r)
        /\ (CopiesIn(r, reqs') > CopiesIn(r, reqs) \/ last'.ev = "boot"))
         => r.hdr = ls'.token]_vars

\* C11 witness: a page has just issued a request while the token of the
\* second login was stored, and the request carries that token.
C11_Witness ==
  /\ last.ev = "issue"
  /\ last.op \in PageOps
  /\ ls.token = "t2"
  /\ \E r \in InFlight : r.op = last.op /\ r.phase = "sent" /\ r.hdr = "t2"

\* C12: a data load makes one HTTP attempt per user action: after the
\* first attempt no further attempt is made until the user acts again.
C12_NoRetries == load.attempts <= 1

\* C13: the two requests of apiGetMeetings / apiGetTodayMeetings are both
\* sent before either response is taken; the call has resolved exactly when
\* both have succeeded, with the meetings mapped over the rooms whichever
\* response came first, and has rejected exactly when one has failed.
C13_FanOutFanIn ==
  /\ fan.rooms.state = "idle" <=> fan.meetings.state = "idle"
  /\ fan.out.state = "none" <=> fan.rooms.state = "idle"
  /\ fan.out.state = "resolved" <=>
       (fan.rooms.state = "ok" /\ fan.meetings.state = "ok")
  /\ fan.out.state = "rejected" <=>
       (fan.rooms.state = "failed" \/ fan.meetings.state = "failed")
  /\ fan.out.state = "resolved" =>
       /\ Len(fan.out.data) = Len(fan.meetings.raw)
       /\ \A k \in 1..Len(fan.out.data) :
            /\ fan.out.data[k].id = ToString(fan.meetings.raw[k].id)
            /\ fan.out.data[k].roomId = ToString(fan.meetings.raw[k].roomId)
       /\ fan.out.data = MapMeetings(fan.rooms.val, fan.meetings.val)

\* C13 witness: the meeting list arrived before the room list, both
\* succeeded, and the call resolved with two meetings.
C13_Witness ==
  /\ fan.first = "meetings"
  /\ fan.rooms.state = "ok"
  /\ Len(fan.rooms.raw) = 2
  /\ fan.out.state = "resolved"
  /\ Len(fan.out.data) = 2

\* C21: apiCreateMeeting sends POST /api/meetings and the room-list GET
\* together and resolves, with the created meeting mapped over the rooms,
\* only when both have succeeded; when the room-list GET has failed it has
\* rejected with no meeting, also when the POST succeeded and the backend
\* created the meeting.
C21_CreateNeedsRoomList ==
  fan.op = "apiCreateMeeting" =>
    /\ fan.rooms.state = "sent" \/ fan.meetings.state = "sent" =>
         fan.rooms.state # "idle" /\ fan.meetings.state # "idle"
    /\ fan.out.state = "resolved" =>
         /\ fan.rooms.state = "ok" /\ fan.meetings.state = "ok"
         /\ Len(fan.out.data) = 1
         /\ fan.out.data[1].id = ToString(fan.meetings.raw[1].id)
         /\ fan.out.data = MapMeetings(fan.rooms.val, fan.meetings.val)
    /\ fan.rooms.state = "failed" =>
         fan.out.state = "rejected" /\ fan.out.data = << >>

\* C21 witness: the POST succeeded first and returned the created meeting,
\* then the room-list GET failed and the call rejected.
C21_Witness ==
  /\ fan.op = "apiCreateMeeting"
  /\ fan.first = "meetings"
  /\ fan.meetings.state = "ok"
  /\ Len(fan.meetings.raw) = 1
  /\ fan.rooms.state = "failed"
  /\ fan.out.state = "rejected"

\* C14: apiLogin has stored the returned token and user id exactly when
\* the login request succeeded (an OK response whose envelope code is 0 or
\* 1); when the request failed it rejects and local storage holds no token
\* or user id that was not there before.
C14_LoginPersistsOnSuccess ==
  wire.done =>
    /\ wire.out.ok <=> (/\ HttpOk(wire.status)
                        /\ wire.body.kind = "json"
                        /\ wire.body.env.code \in {0, 1})
    /\ (wire.out.ok /\ wire.body.env.data \in LoginData) =>
         /\ wire.stored.token = TokenOf(wire.body.env.data)
         /\ wire.stored.userId = UserIdOf(wire.body.env.data)
    /\ ~wire.out.ok =>
         /\ wire.stored.token \in {wire.storage.token, None}
         /\ wire.stored.userId \in {wire.storage.userId, None}
         /\ wire.status \notin AuthStatuses => wire.stored = wire.storage

\* C14 witness: a login answered with code 1 replaced the stored session
\* of the first user by that of the second.
C14_Witness ==
  /\ wire.done
  /\ wire.out.ok
  /\ wire.body.env.code = 1
  /\ wire.body.env.data = "L2"
  /\ wire.storage.token = "t1"
  /\ wire.stored = [token |-> "t2", userId |-> "u2"]

\* C15: a page load (reload, forced redirect, URL opened) leaves local
\* storage as it was and starts the AuthProvider from it: the in-memory
\* token is the stored token; with a token stored the current-user fetch
\* is running with that token and no login; with none stored no
\* current-user fetch is in flight and the user is null.
C15_SessionSurvivesReload ==
  [][last'.ev = "boot" =>
       /\ ls' = ls
       /\ token' = ls.token
       /\ ls.token # None =>
            /\ me'.fetching
            /\ \E r \in BagToSet(reqs') :
                 /\ r.op = "apiGetCurrentUser"
                 /\ r.live
                 /\ r.hdr = ls.token
       /\ ls.token = None =>
            /\ ~me'.fetching
            /\ me'.data = NoUser
            /\ \A r \in BagToSet(reqs') : r.op # "apiGetCurrentUser"]_vars

\* C15 witness: a page load on a protected route with the first user's
\* token stored: the token is back in memory and the guard waits for the
\* current-user fetch.
C15_Witness ==
  /\ last.ev = "boot"
  /\ ls.token = "t1"
  /\ token = "t1"
  /\ me.fetching
  /\ location \in Protected
  /\ view = "nothing"

\* C16: in the result of apiGetMeetings / apiGetTodayMeetings each
\* meeting's roomName is the name of the room of the list whose id equals
\* the meeting's roomId (of the last such room, should several share the
\* id) and the empty string when the list has no room with that id.
C16_RoomNameLookup ==
  fan.out.state = "resolved" =>
    \A k \in 1..Len(fan.out.data) :
      LET rooms == fan.rooms.raw
          match == {j \in 1..Len(rooms) :
                      rooms[j].id = fan.meetings.raw[k].roomId}
          lastj == CHOOSE j \in match : \A i \in match : i <= j
      IN fan.out.data[k].roomName =
           IF match = {} THEN "" ELSE rooms[lastj].name

\* C16 witness: one meeting found its room, the other has a roomId that
\* no room of the list has.
C16_Witness ==
  /\ fan.out.state = "resolved"
  /\ Len(fan.out.data) = 2
  /\ fan.meetings.raw[1].roomId = 2
  /\ fan.meetings.raw[2].roomId = 3
  /\ fan.out.data[1].roomName = "B"
  /\ fan.out.data[2].roomName = ""

\* The parts a text should give: the runs between delimiters, each cut
\* down to its first and last character that is not a space, as pairs of
\* positions; a run of spaces only gives none.
IsDelim(c) == c = "," \/ c = "DUN" \/ c = "FWC"
Cores(text) ==
  {c \in (1..Len(text)) \X (1..Len(text)) :
     /\ c[1] <= c[2]
     /\ text[c[1]] # Space
     /\ text[c[2]] # Space
     /\ \A k \in c[1]..c[2] : ~IsDelim(text[k])
     /\ \A k \in 1..(c[1] - 1) :
          (\A m \in k..(c[1] - 1) : ~IsDelim(text[m])) => text[k] = Space
     /\ \A k \in (c[2] + 1)..Len(text) :
          (\A m \in (c[2] + 1)..k : ~IsDelim(text[m])) => text[k] = Space}

\* C17: the equipment list is the parts of the backend string between the
\* three delimiters, in their order, each trimmed, without the parts that
\* are empty after trimming; an empty or missing string gives the empty
\* list.
C17_EquipmentSplit ==
  equip.done =>
    LET text == equip.room.equipment.text
        cores == Cores(text)
    IN /\ ~equip.room.equipment.has => equip.out = << >>
       /\ Len(equip.out) = Cardinality(cores)
       /\ \A c \in cores :
            equip.out[1 + Cardinality({d \in cores : d[1] < c[1]})]
              = SubSeq(text, c[1], c[2])

\* C17 witness: two names separated by the ideographic comma gave the two
\* names.
C17_Witness ==
  /\ equip.done
  /\ equip.room.equipment = Present(<< "a", "DUN", "b" >>)
  /\ equip.out = << << "a" >>, << "b" >> >>

\* C18: a response that is not OK makes the call reject with an error that
\* carries the status and the first 200 characters of the body text (all
\* of it when it is shorter), and the status alone when the body cannot be
\* read.
C18_HttpErrorCarriesStatusAndText ==
  (wire.done /\ ~HttpOk(wire.status))
    => /\ ~wire.out.ok
       /\ wire.out.err.kind = "http"
       /\ wire.out.err.status = wire.status
       /\ wire.body.kind = "text" =>
            /\ Len(wire.out.err.body) =
                 (IF Len(wire.body.text) <= 200 THEN Len(wire.body.text)
                  ELSE 200)
            /\ \A k \in 1..Len(wire.out.err.body) :
                 wire.out.err.body[k] = wire.body.text[k]
       /\ wire.body.kind = "unreadable" => wire.out.err.body = << >>

\* C18 witness: a 500 whose body is longer than 200 characters was cut to
\* 200.
C18_Witness ==
  /\ wire.done
  /\ wire.status = 500
  /\ wire.body.kind = "text"
  /\ Len(wire.body.text) > 200
  /\ Len(wire.out.err.body) = 200

\* C19: a stored token leaves local storage, or is replaced, only by a
\* logout, by a successful login, or by a 401 / 403 answer to a request
\* that was sent with that same token.
C19_TokenOutlivesStaleFailure ==
  [][(ls.token # None /\ ls'.token # ls.token) =>
       \/ last'.op = "apiLogout" /\ last'.ev \in SettleEvents
       \/ last'.op = "apiLogin" /\ last'.ev \in SettleEvents /\ last'.ok
       \/ last'.ev = "status" /\ last'.hdr = ls.token]_vars

\* C20 as stated: a request that fails with a status other than 401 / 403,
\* or with an OK response that requestResult rejects, leaves local
\* storage, the pending browser navigation and the location unchanged.
C20_Original ==
  [][(last'.ev = "response" /\ ~last'.ok) =>
       /\ ls' = ls
       /\ href' = href
       /\ location' = location]_vars

\* C20 as amended: requestJson and requestResult change nothing on such a
\* failure: no browser navigation is started, local storage is unchanged
\* unless the request is the logout request (whose callers clear the
\* session whatever the outcome), and the location is unchanged unless the
\* request is the logout request or the current-user fetch (after which
\* the route guard, finding no user, navigates to /login).
C20_OnlyAuthFailureEndsSession ==
  [][(last'.ev = "response" /\ ~last'.ok) =>
       /\ href' = href
       /\ last'.op # "apiLogout" => ls' = ls
       /\ last'.op \notin {"apiLogout", "apiGetCurrentUser"} =>
            location' = location]_vars

\* C20 witness: a page's request was answered 200 with a failure code
\* while a session was stored; the session is still stored and the page is
\* still shown.
C20_Witness ==
  /\ last.ev = "response"
  /\ last.op \in PageOps
  /\ last.status = 200
  /\ last.toast.kind = "app"
  /\ ls.token # None
  /\ ls.userId # None
  /\ href = None
  /\ view = "content"

\* C22 as stated: when a mutation succeeds the list query is invalidated,
\* the dialog is closed and the form is reset (for approve and reject: the
\* detail dialog and the comment); when it fails nothing is invalidated and
\* dialog, form and selection stay as they were.
Creates == {"createWorkflow", "createDepartment", "createMeeting"}
Decisions == {"approveWorkflow", "rejectWorkflow"}
FormUnit == page.unit \in DOMAIN Mutations
Kept(fields) == \A f \in fields : page'[f] = page[f]
C22_Original ==
  [][(FormUnit /\ page'.step = "onSuccess") =>
       /\ page'.stale
       /\ IF page'.settled \in Decisions
            THEN ~page'.selected /\ page'.comment = << >>
            ELSE ~page'.open /\ page'.form = "blank"]_vars

\* C22: a successful create invalidates the list query, closes the create
\* dialog and resets its form; a successful approve or reject invalidates,
\* clears the selection (closing the detail dialog) and empties the comment;
\* a successful delete invalidates and leaves dialog and form as they are
\* (the department delete also clears the selection); a failed mutation
\* invalidates nothing and changes no dialog, form, selection or comment.
C22_MutationOutcome ==
  [][FormUnit =>
       /\ page'.step = "onSuccess" =>
            /\ page'.stale
            /\ page'.settled \in Creates =>
                 /\ ~page'.open /\ page'.form = "blank"
                 /\ Kept({"selected", "comment"})
            /\ page'.settled \in Decisions =>
                 /\ ~page'.selected /\ page'.comment = << >>
                 /\ Kept({"open", "form"})
            /\ page'.settled = "deleteDepartment" =>
                 ~page'.selected /\ Kept({"open", "form", "comment"})
            /\ page'.settled = "deleteMeeting" =>
                 Kept({"open", "form", "selected", "comment"})
       /\ page'.step = "onError" =>
            Kept({"stale", "open", "form", "selected", "comment"})]_vars

\* C22 witness: a meeting was deleted while the booking dialog was open
\* with a filled form; the list is invalidated, the dialog still open.
C22_Witness ==
  /\ FormUnit
  /\ page.step = "onSuccess"
  /\ page.settled = "deleteMeeting"
  /\ page.stale
  /\ page.open
  /\ page.form = "filled"

\* C23: handleReject sends nothing when the approval comment is empty or
\* only whitespace; a reject request that is sent carries the comment as
\* typed, which is not blank; handleApprove always sends, with the comment
\* when there is one and without it otherwise.
C23_RejectNeedsReason ==
  [][FormUnit =>
       /\ page'.step = "handleReject" =>
            IF trim(page.comment) = << >>
              THEN Kept({"pending", "sent"})
              ELSE /\ "rejectWorkflow" \in page'.pending
                   /\ page'.sent = [kind |-> "rejectWorkflow",
                                    comment |-> Present(page.comment)]
       /\ "rejectWorkflow" \in page'.pending \ page.pending =>
            /\ page'.step = "handleReject"
            /\ page'.sent.comment.has
            /\ \E k \in DOMAIN page'.sent.comment.text :
                 page'.sent.comment.text[k] # Space
       /\ page'.step = "handleApprove" =>
            /\ "approveWorkflow" \in page'.pending
            /\ page'.sent.kind = "approveWorkflow"
            /\ page'.sent.comment.has <=> page.comment # << >>
            /\ page'.sent.comment.text = page.comment]_vars

\* C23 witness: reject was pressed with a comment of one space and nothing
\* was sent.
C23_Witness ==
  /\ FormUnit
  /\ page.step = "handleReject"
  /\ page.comment = << Space >>
  /\ page.sent.kind = None
  /\ page.pending = {}

\* C24: a loadData call that ends because one of its four requests failed
\* has updated none of stats, workflows, today's meetings and notifications
\* and has set the error message; one that ends because all four succeeded
\* has updated all four and cleared the error; either way loading is false
\* when it has ended, and nothing is stored while it is still waiting.
C24_LoadAllOrNothing ==
  [][page.unit = "dashboard" =>
       /\ (page.out = "pending" /\ page'.out = "rejected") =>
            /\ page'.data = page.data
            /\ page'.error \in {"E1", "E2"}
            /\ ~page'.loading
       /\ (page.out = "pending" /\ page'.out = "resolved") =>
            /\ \A n \in DOMAIN page'.data : page'.data[n] = page.call
            /\ page'.error = None
            /\ ~page'.loading
       /\ (page.out = "pending" /\ page'.out = "pending") =>
            page'.data = page.data /\ page'.error = page.error
       /\ page'.out = "rejected" <=>
            \E n \in DOMAIN page'.slots : page'.slots[n] = "failed"
       /\ page'.loading <=> page'.out = "pending"]_vars

\* C24 witness: the first load succeeded and the second failed on one
\* request after the three others had succeeded; the page still shows the
\* data of the first load, with the error message.
C24_Witness ==
  /\ page.unit = "dashboard"
  /\ page.call = 2
  /\ page.out = "rejected"
  /\ page.slots.stats = "failed"
  /\ \A n \in DOMAIN page.slots \ {"stats"} : page.slots[n] = "ok"
  /\ \A n \in DOMAIN page.data : page.data[n] = 1
  /\ page.error = "E2"
  /\ ~page.loading

\* C25: when Login.onSuccess navigates after a successful login, it goes to
\* the protected path recorded when the guard redirected to /login, and to
\* "/" when none is recorded or the recorded one is /login; the guard then
\* shows that route (or nothing while the profile loads), or sends back to
\* /login recording it when no profile could be loaded.  And the router is
\* never at /login with a loaded profile: such a user is sent to "/".
LoginNavigates ==
  \/ /\ last'.op = "apiLogin" /\ last'.ev \in SettleEvents /\ last'.ok
     /\ loginWait' = None
  \/ loginWait # None /\ loginWait' = None /\ last'.ev # "boot"
C26_AdapterFlattensStatus ==
  page.unit = "workflowList" =>
    /\ Len(page.out) = Len(page.raw)
    /\ \A k \in DOMAIN page.out :
         /\ page.out[k].status = "pending"
         /\ page.out[k].type = "leave"
         /\ page.out[k].approvers = << >>
    /\ page.op \in {"apiGetPendingWorkflows", "apiGetMyWorkflows"} =>
         \A k \in DOMAIN page.out :
           canApprove(page.activeTab, page.out[k])
             <=> page.activeTab = "pending"

\* C26 witness: a suspended process instance is listed on the "my" tab as
\* a pending leave request.
C26_Witness ==
  /\ page.unit = "workflowList"
  /\ page.op = "apiGetMyWorkflows"
  /\ Len(page.raw) = 1
  /\ page.raw[1].suspended
  /\ page.out[1].status = "pending"

\* C27: at most one chat request is in flight and loading is set exactly
\* while it is; handleSend called while loading sends nothing and adds no
\* message; an accepted send adds the user's trimmed message and the end of
\* its request adds one assistant message, the reply or the apology, so
\* after the greeting the messages alternate user, assistant; and loading
\* always returns to false.
ChatLoading == page.unit = "chat" /\ page.isLoading
ChatIdle == page.unit = "chat" /\ ~page.isLoading
ChatShape ==
  page.unit = "chat" =>
    /\ page.inflight \in {0, 1}
    /\ page.isLoading <=> page.inflight = 1
    /\ Len(page.messages) = 1 + 2 * page.sends - page.inflight
    /\ \A k \in 2..Len(page.messages) :
         IF k % 2 = 0
           THEN /\ page.messages[k].role = "user"
                /\ \E j \in DOMAIN page.messages[k].content :
                     page.messages[k].content[j] # Space
           ELSE /\ page.messages[k].role = "assistant"
                /\ page.messages[k].content \in {<< "REPLY" >>, << "SORRY" >>}
ChatStep ==
  page.unit = "chat" =>
    /\ (page.isLoading /\ page'.step = "handleSend") =>
         page'.messages = page.messages /\ page'.inflight = page.inflight
    /\ page'.inflight > page.inflight =>
         /\ ~page.isLoading
         /\ page'.messages =
              Append(page.messages,
                     [role |-> "user", content |-> trim(page.input)])
    /\ page'.inflight < page.inflight =>
         /\ Len(page'.messages) = Len(page.messages) + 1
         /\ page'.messages[Len(page'.messages)].role = "assistant"
         /\ page'.step = "catch" <=>
              page'.messages[Len(page'.messages)].content = << "SORRY" >>
Unread(list) == {k \in DOMAIN list : ~list[k].isRead}
Items(list) == {list[k] : k \in DOMAIN list}
C28_NotificationList ==
  [][page.unit = "notifications" =>
       LET old == page.notifications
           new == page'.notifications
           step == page'.step
       IN /\ unreadCount(new) = Cardinality(Unread(new))
          /\ unreadCount(new) <= unreadCount(old)
          /\ \A n \in Items(new) : \E o \in Items(old) :
               o.id = n.id /\ (o.isRead => n.isRead)
          /\ step.op = "handleMarkAsRead" =>
               /\ Len(new) = Len(old)
               /\ \A k \in DOMAIN old :
                    /\ new[k].id = old[k].id
                    /\ new[k].isRead = (old[k].isRead \/ old[k].id = step.id)
          /\ step.op = "handleMarkAllAsRead" =>
               /\ unreadCount(new) = 0
               /\ Len(new) = Len(old)
               /\ \A k \in DOMAIN old : new[k].id = old[k].id
          /\ step.op = "handleDelete" =>
               /\ Len(new) = Len(old) - 1
               /\ Items(new) = {o \in Items(old) : o.id # step.id}]_vars

\* C28 witness: after one notification was deleted, mark-all left the
\* remaining five read.
C28_Witness ==
  /\ page.unit = "notifications"
  /\ page.step.op = "handleMarkAllAsRead"
  /\ Len(page.notifications) = 5
  /\ unreadCount(page.notifications) = 0

====
